---- MODULE Spec2Model ----
(***************************************************************************)
(* A model of the council execution engine: the Council's member set, the  *)
(* CouncilCallState of one call (pending_members, dependency_stack,        *)
(* partial_result) and the MemberAction objects a member may return.       *)
(* (The action class Append is written AppendAct: Sequences owns Append.)  *)
(*                                                                         *)
(* Members and result values are small integers.  A MemberAction object is *)
(* a record [kind, args, parts]: args is the tuple the constructor stored  *)
(* (wait_for, args, indices), parts the parts of a Joined.  A plain        *)
(* (non-action) value v is the record of kind "Value".                     *)
(***************************************************************************)
EXTENDS Integers, Sequences, FiniteSets, TLC

\* ------------------------------------------------------------ bounds
NumMembers == 2
NumValues == 1
MaxStack == 3
MaxResult == 1

\* the member objects and the result values of the runs explored
Member == 1..NumMembers
Value == 1..NumValues

\* one member, one stack slot more: the runs in which a member waits for two
MemberDeep == 1..(NumMembers + 1)
MaxStackDeep == MaxStack + 1

\* longer results over more values: the runs that remove from the result
ValueDeep == 1..(NumValues + 2)
MaxResultDeep == MaxResult + 2

NoMember == 0

\* ------------------------------------------------------------ helpers
Range(s) == {s[i] : i \in 1..Len(s)}

Last(s) == s[Len(s)]

Front(s) == SubSeq(s, 1, Len(s) - 1)

\* list.pop(i) for an index already known to be in 1..Len(s) (1-based)
RemoveAt(s, i) == SubSeq(s, 1, i - 1) \o SubSeq(s, i + 1, Len(s))

RECURSIVE Flatten(_)
\* itertools.chain.from_iterable over a tuple of sequences
Flatten(groups) ==
    IF groups = <<>> THEN <<>> ELSE Head(groups) \o Flatten(Tail(groups))

\* ------------------------------------------------------------ action objects
Act(k, a, p) == [kind |-> k, args |-> a, parts |-> p]

Continue == Act("Continue", <<>>, <<>>)

Break == Act("Break", <<>>, <<>>)

Postpone(wait_for) == Act("Postpone", wait_for, <<>>)

Enqueue(args) == Act("Enqueue", args, <<>>)

\* the iterables of an Extend are kept in parts: they are sequences, not values
Extend(args) == Act("Extend", <<>>, args)

AppendAct(args) == Act("Append", args, <<>>)

RemoveResult(args) == Act("RemoveResult", args, <<>>)

PopResult(indices) == Act("PopResult", indices, <<>>)

ClearResult == Act("ClearResult", <<>>, <<>>)

Joined(parts) == Act("Joined", <<>>, parts)

\* a plain value returned by a member (not a MemberAction)
Plain(v) == Act("Value", <<v>>, <<>>)

\* isinstance(x, MemberAction)
IsMemberAction(x) == x.kind # "Value"

\* MemberAction.__add__(self, other)
MemberActionAdd(self, other) ==
    Joined(<<self, IF IsMemberAction(other) THEN other ELSE AppendAct(other.args)>>)

\* a Joined sum that puts the right operand in front
JoinedAddSwapped(self, other) ==
    IF other.kind = "Joined"
    THEN Joined(other.parts \o self.parts)
    ELSE Joined(<<other>> \o self.parts)

\* Joined.__add__(self, other).  chain(self.parts, other.parts) is an
\* iterator; parts holds what its first iteration yields
JoinedAdd(self, other) ==
    IF other.kind = "Joined"
    THEN Joined(self.parts \o other.parts)
    ELSE Joined(self.parts \o <<other>>)

\* the Joined object that Joined.__add__ makes of two Joined, kept and
\* executed again later: its parts is the chain object ref, not a tuple
ChainJoined(ref) == Act("Joined", <<ref>>, <<>>)

\* Joined.__radd__(self, other)
JoinedRadd(self, other) == Joined(<<other>> \o self.parts)

\* MemberAction.__radd__(self, other)
MemberActionRadd(self, other) ==
    LET o == IF IsMemberAction(other) THEN other ELSE AppendAct(other.args)
    IN  IF o.kind = "Joined" THEN JoinedAdd(o, self) ELSE MemberActionAdd(o, self)

\* the expression  a + b  where at least one operand is a MemberAction:
\* a's __add__ when a is an action, otherwise b's __radd__
Add(a, b) ==
    IF a.kind = "Joined" THEN JoinedAdd(a, b)
    ELSE IF IsMemberAction(a) THEN MemberActionAdd(a, b)
    ELSE IF b.kind = "Joined" THEN JoinedRadd(b, a)
    ELSE MemberActionRadd(b, a)

\* ------------------------------------------------------------ state variables
VARIABLES
    sets,              \* heap: set object -> its elements
    pending_ref,       \* the object state.pending_members refers to
    dependency_stack,  \* state.dependency_stack
    partial_result,    \* state.partial_result
    pc,                \* where the call is: idle, next, apply, returned, raised
    member,            \* call_next's local: the member taken last
    out,               \* call_next's local: what that member returned
    returned,          \* what Council.__call__ handed to its caller
    waiting_on,        \* per observed member, the wait_for of its Postpone
                       \* that have not run since
    call_args,         \* state.args: the arguments of the call
    iters,             \* heap: itertools.chain object -> the parts it still yields
    other              \* the CouncilCallState of a second call in flight

vars == <<sets, pending_ref, dependency_stack, partial_result, pc, member,
          out, returned, waiting_on, call_args, iters, other>>

\* ------------------------------------------------------------ executing actions
\* The run state an action works on: the CouncilCallState's three
\* collections, ret (the bool the action returned) and err (the exception
\* it raised, "none" when it returned).
RunState(pend, stack, result) ==
    [pending |-> pend, stack |-> stack, result |-> result,
     ret |-> TRUE, err |-> "none", iters |-> iters]

Raise(st, e) == [st EXCEPT !.err = e, !.ret = FALSE]

\* a Continue that stops the call
ContinueCallStops(self, current, st) == [st EXCEPT !.ret = FALSE]

ContinueCall(self, current, st) == [st EXCEPT !.ret = TRUE]

\* a Break that does not stop the call
BreakCallGoesOn(self, current, st) == [st EXCEPT !.ret = TRUE]

BreakCall(self, current, st) == [st EXCEPT !.ret = FALSE]

RECURSIVE PostponeLoopDiscard(_, _)
\* a Postpone that passes over a dependency it does not find in pending
PostponeLoopDiscard(wait_for, st) ==
    IF wait_for = <<>> THEN [st EXCEPT !.ret = TRUE]
    ELSE LET wf == Head(wait_for)
         IN  PostponeLoopDiscard(Tail(wait_for),
                 [st EXCEPT !.pending = @ \ {wf}, !.stack = @ \o <<wf>>])

RECURSIVE PostponeLoop(_, _)
\* the for loop of Postpone.__call__
PostponeLoop(wait_for, st) ==
    IF wait_for = <<>> THEN [st EXCEPT !.ret = TRUE]
    ELSE LET wf == Head(wait_for)
         IN  IF wf \notin st.pending
             THEN Raise(st, "KeyError")
             ELSE PostponeLoop(Tail(wait_for),
                      [st EXCEPT !.pending = @ \ {wf},
                                 !.stack = @ \o <<wf>>])

PostponeCall(self, current, st) ==
    PostponeLoop(self.args, [st EXCEPT !.stack = @ \o <<current>>])

EnqueueCall(self, current, st) ==
    [st EXCEPT !.pending = @ \cup Range(self.args), !.ret = TRUE]

ExtendCall(self, current, st) ==
    [st EXCEPT !.result = @ \o Flatten(self.parts), !.ret = TRUE]

AppendCall(self, current, st) ==
    [st EXCEPT !.result = @ \o self.args, !.ret = TRUE]

\* list.remove(a): the first element equal to a; ValueError when there is none
ListRemove(s, a) ==
    LET i == CHOOSE i \in 1..Len(s) :
                 s[i] = a /\ \A j \in 1..(i - 1) : s[j] # a
    IN  RemoveAt(s, i)

RECURSIVE RemoveResultLoopSkip(_, _)
\* a RemoveResult that passes over a value it does not find
RemoveResultLoopSkip(args, st) ==
    IF args = <<>> THEN [st EXCEPT !.ret = TRUE]
    ELSE IF Head(args) \notin Range(st.result)
         THEN RemoveResultLoopSkip(Tail(args), st)
         ELSE RemoveResultLoopSkip(Tail(args),
                  [st EXCEPT !.result = ListRemove(@, Head(args))])

RECURSIVE RemoveResultLoop(_, _)
RemoveResultLoop(args, st) ==
    IF args = <<>> THEN [st EXCEPT !.ret = TRUE]
    ELSE IF Head(args) \notin Range(st.result)
         THEN Raise(st, "ValueError")
         ELSE RemoveResultLoop(Tail(args),
                  [st EXCEPT !.result = ListRemove(@, Head(args))])

RemoveResultCall(self, current, st) == RemoveResultLoop(self.args, st)

\* the sort key of PopResult.__call__: k % len(partial_result)
PopKey(k, n) == k % n

\* where sorted(..., reverse=True) puts x in an already sorted sequence:
\* behind every element whose key is >= its own (the sort is stable)
InsertDesc(sorted, x, n) ==
    LET ahead == {i \in 1..Len(sorted) : PopKey(sorted[i], n) >= PopKey(x, n)}
        at == IF ahead = {} THEN 0
              ELSE CHOOSE i \in ahead : \A j \in ahead : j <= i
    IN  SubSeq(sorted, 1, at) \o <<x>> \o SubSeq(sorted, at + 1, Len(sorted))

RECURSIVE SortedDesc(_, _)
\* sorted(args, key=lambda k: k % n, reverse=True)
SortedDesc(args, n) ==
    IF args = <<>> THEN <<>>
    ELSE InsertDesc(SortedDesc(Front(args), n), Last(args), n)

RECURSIVE PopLoopNoWrap(_, _)
\* a pop that takes a negative index for an index outside the list
PopLoopNoWrap(order, st) ==
    IF order = <<>> THEN [st EXCEPT !.ret = TRUE]
    ELSE LET a == Head(order)
             n == Len(st.result)
         IN  IF a < 0 \/ a >= n
             THEN Raise(st, "IndexError")
             ELSE PopLoopNoWrap(Tail(order),
                      [st EXCEPT !.result = RemoveAt(@, a + 1)])

RECURSIVE PopLoop(_, _)
\* state.partial_result.pop(a) for each a: a negative a counts from the
\* end of the list as it is now; IndexError outside the list
PopLoop(order, st) ==
    IF order = <<>> THEN [st EXCEPT !.ret = TRUE]
    ELSE LET a == Head(order)
             n == Len(st.result)
             i == IF a < 0 THEN a + n ELSE a
         IN  IF i < 0 \/ i >= n
             THEN Raise(st, "IndexError")
             ELSE PopLoop(Tail(order),
                      [st EXCEPT !.result = RemoveAt(@, i + 1)])

PopResultCall(self, current, st) ==
    IF self.args = <<>> THEN [st EXCEPT !.ret = TRUE]
    ELSE IF Len(st.result) = 0 THEN Raise(st, "ZeroDivisionError")
    ELSE PopLoop(SortedDesc(self.args, Len(st.result)), st)

ClearResultCall(self, current, st) ==
    [st EXCEPT !.result = <<>>, !.ret = TRUE]

\* the keys of a dict, which is kept as the sequence of its (key, value)
\* items in the order they were inserted
Keys(d) == {d[i][1] : i \in 1..Len(d)}

\* d[k]
Lookup(d, k) == LET i == CHOOSE i \in 1..Len(d) : d[i][1] = k IN d[i][2]

\* DictCouncil.SetMissing(key, value)
SetMissing(k, v) == Act("SetMissing", <<k, v>>, <<>>)

\* SetMissing.__call__: set key to value unless the dict holds the key
SetMissingCall(self, current, st) ==
    IF self.args[1] \in Keys(st.result) THEN [st EXCEPT !.ret = TRUE]
    ELSE [st EXCEPT !.result = @ \o <<self.args>>, !.ret = TRUE]

RECURSIVE MemberActionCall(_, _, _), JoinedLoop(_, _, _, _)
RECURSIVE JoinedLoopShortCircuit(_, _, _, _)
RECURSIVE JoinedChainLoop(_, _, _, _)
\* a Joined that stops at the first part returning False
JoinedLoopShortCircuit(parts, current, st, ret) ==
    IF parts = <<>> \/ ~ret THEN [st EXCEPT !.ret = ret]
    ELSE LET s1 == MemberActionCall(Head(parts), current, st)
         IN  IF s1.err # "none" THEN s1
             ELSE JoinedLoopShortCircuit(Tail(parts), current, s1, ret /\ s1.ret)

\* the for loop of Joined.__call__: ret &= p(*args, **kwargs)
JoinedLoop(parts, current, st, ret) ==
    IF parts = <<>> THEN [st EXCEPT !.ret = ret]
    ELSE LET s1 == MemberActionCall(Head(parts), current, st)
         IN  IF s1.err # "none" THEN s1
             ELSE JoinedLoop(Tail(parts), current, s1, ret /\ s1.ret)

\* the for loop of Joined.__call__ when self.parts is the chain object ref:
\* the iterator yields each part once and keeps what it has not yielded
JoinedChainLoop(ref, current, st, ret) ==
    IF st.iters[ref] = <<>> THEN [st EXCEPT !.ret = ret]
    ELSE LET s1 == MemberActionCall(Head(st.iters[ref]), current,
                                    [st EXCEPT !.iters[ref] = Tail(@)])
         IN  IF s1.err # "none" THEN s1
             ELSE JoinedChainLoop(ref, current, s1, ret /\ s1.ret)

JoinedCall(self, current, st) ==
    IF self.args # <<>> THEN JoinedChainLoop(self.args[1], current, st, TRUE)
    ELSE JoinedLoop(self.parts, current, st, TRUE)

\* action(current, state), by the class of the action
MemberActionCall(self, current, st) ==
    CASE self.kind = "Continue" -> ContinueCall(self, current, st)
      [] self.kind = "Break" -> BreakCall(self, current, st)
      [] self.kind = "Postpone" -> PostponeCall(self, current, st)
      [] self.kind = "Enqueue" -> EnqueueCall(self, current, st)
      [] self.kind = "Extend" -> ExtendCall(self, current, st)
      [] self.kind = "Append" -> AppendCall(self, current, st)
      [] self.kind = "RemoveResult" -> RemoveResultCall(self, current, st)
      [] self.kind = "PopResult" -> PopResultCall(self, current, st)
      [] self.kind = "ClearResult" -> ClearResultCall(self, current, st)
      [] self.kind = "Joined" -> JoinedCall(self, current, st)
      [] self.kind = "SetMissing" -> SetMissingCall(self, current, st)
      [] OTHER -> Raise(st, "TypeError")

\* ------------------------------------------------------------ state
\* The set objects of the program live in a heap: the Council's
\* self.members and the set each CouncilCallState builds for itself (there
\* are at most two call states at a time).
MembersRef == 0

StateRef == 1

OtherStateRef == 2

\* Council.members
members == sets[MembersRef]

\* CouncilCallState.pending_members
pending_members == sets[pending_ref]

NoReturn == [has |-> FALSE, value |-> <<>>]

Returned(v) == [has |-> TRUE, value |-> v]

NoWaits == [m \in DOMAIN waiting_on |-> {}]

\* pending_members = self.council.members: no copy, the Council's own set
SharedSetRef == MembersRef

\* a CouncilCallState whose pending_members is one set object whichever
\* call builds it
ReusedSetRef == StateRef

\* set(self.council.members): the reference of a new set object, one that
\* no call state in flight holds
NewSetRef ==
    IF other.pending_ref = StateRef THEN OtherStateRef ELSE StateRef

NoArgs == 0

\* a call state no call has used yet
IdleCall ==
    [pending_ref |-> OtherStateRef, dependency_stack |-> <<>>,
     partial_result |-> <<>>, pc |-> "idle", member |-> NoMember,
     out |-> Continue, returned |-> NoReturn, call_args |-> NoArgs]

\* ------------------------------------------------------------ operations
\* Council.__init__; W are the members whose Postpone is observed
InitOver(W) ==
    /\ sets = [r \in {MembersRef, StateRef, OtherStateRef} |-> {}]
    /\ pending_ref = StateRef
    /\ dependency_stack = <<>>
    /\ partial_result = <<>>
    /\ pc = "idle"
    /\ member = NoMember
    /\ out = Continue
    /\ returned = NoReturn
    /\ waiting_on = [m \in W |-> {}]
    /\ call_args = NoArgs
    /\ iters = <<>>
    /\ other = IdleCall

\* Council.add_member (the member wrappers leave the member's identity to
\* the caller: the member added is m)
AddMember(m) ==
    /\ sets' = [sets EXCEPT ![MembersRef] = @ \cup {m}]
    /\ UNCHANGED <<pending_ref, dependency_stack, partial_result, pc, member,
                   out, returned, waiting_on, call_args, iters, other>>

\* Council.remove_member: set.remove raises KeyError for a non-member and
\* changes nothing
RemoveMember(m) ==
    /\ m \in members
    /\ sets' = [sets EXCEPT ![MembersRef] = @ \ {m}]
    /\ UNCHANGED <<pending_ref, dependency_stack, partial_result, pc, member,
                   out, returned, waiting_on, call_args, iters, other>>

\* Council.__call__ up to the loop: call_state() builds a CouncilCallState
StartCall ==
    /\ pc \in {"idle", "returned", "raised"}
    /\ pending_ref' = NewSetRef
    /\ sets' = [sets EXCEPT ![NewSetRef] = sets[MembersRef]]
    /\ dependency_stack' = <<>>
    /\ partial_result' = <<>>
    /\ pc' = "next"
    /\ member' = NoMember
    /\ out' = Continue
    /\ returned' = NoReturn
    /\ waiting_on' = NoWaits
    /\ UNCHANGED <<call_args, iters, other>>

\* a choice that takes the oldest element of the stack, not the newest
SelectOldest(stack, pend) ==
    IF stack # <<>>
    THEN {[member |-> Head(stack), stack |-> Tail(stack), pending |-> pend]}
    ELSE {[member |-> m, stack |-> stack, pending |-> pend \ {m}] : m \in pend}

\* a choice that leaves the member it takes in pending
SelectKeeps(stack, pend) ==
    IF stack # <<>>
    THEN {[member |-> Last(stack), stack |-> Front(stack), pending |-> pend]}
    ELSE {[member |-> m, stack |-> stack, pending |-> pend] : m \in pend}

\* call_next's choice of the member: what it takes and what it leaves
Select(stack, pend) ==
    IF stack # <<>>
    THEN {[member |-> Last(stack), stack |-> Front(stack), pending |-> pend]}
    ELSE {[member |-> m, stack |-> stack, pending |-> pend \ {m}] : m \in pend}

\* call_next's normalisation of what the member returned
Normalize(o) == IF IsMemberAction(o) THEN o ELSE AppendAct(o.args)

\* the run state after out(member, self)
Applied(o, m, pend, stack, result) ==
    MemberActionCall(Normalize(o), m, RunState(pend, stack, result))

\* the model follows a call only while its collections stay within the bounds
WithinBounds(st, maxStack, maxResult) ==
    /\ Len(st.stack) <= maxStack
    /\ Len(st.result) <= maxResult

\* call_next, first half: take a member and call it; the member returns o
CallNextMember(outs, maxStack, maxResult) ==
    /\ pc = "next"
    /\ \E sel \in Select(dependency_stack, pending_members) :
       \E o \in outs :
          /\ WithinBounds(Applied(o, sel.member, sel.pending, sel.stack,
                                  partial_result), maxStack, maxResult)
          /\ member' = sel.member
          /\ dependency_stack' = sel.stack
          /\ sets' = [sets EXCEPT ![pending_ref] = sel.pending]
          /\ out' = o
          /\ waiting_on' = [a \in DOMAIN waiting_on |->
                               IF a = sel.member THEN waiting_on[a]
                               ELSE waiting_on[a] \ {sel.member}]
    /\ pc' = "apply"
    /\ UNCHANGED <<pending_ref, partial_result, returned, call_args, iters, other>>

\* the choices call_next has now
Choices == Select(dependency_stack, pending_members)

\* call_next, first half, for members whose return value depends on the
\* member and on the call state it is handed: returns maps each choice of
\* call_next to what the member taken may then return
CallNextBy(returns, maxStack, maxResult) ==
    /\ pc = "next"
    /\ \E sel \in DOMAIN returns :
       \E o \in returns[sel] :
          /\ WithinBounds(Applied(o, sel.member, sel.pending, sel.stack,
                                  partial_result), maxStack, maxResult)
          /\ member' = sel.member
          /\ dependency_stack' = sel.stack
          /\ sets' = [sets EXCEPT ![pending_ref] = sel.pending]
          /\ out' = o
          /\ waiting_on' = [a \in DOMAIN waiting_on |->
                               IF a = sel.member THEN waiting_on[a]
                               ELSE waiting_on[a] \ {sel.member}]
    /\ pc' = "apply"
    /\ UNCHANGED <<pending_ref, partial_result, returned, call_args, iters, other>>

\* raise TypeError(''): an object whose execution raises it
RaiseTypeError == Act("TypeError", <<>>, <<>>)

\* a default action that appends the pair as a list-accumulating call
\* state appends a value
DictDefaultActionAppend(o) ==
    IF Len(o.args[1]) # 2 THEN RaiseTypeError
    ELSE AppendAct(o.args)

\* DictCouncil.CallState.default_action(out)
DictDefaultAction(o) ==
    IF Len(o.args[1]) # 2 THEN RaiseTypeError
    ELSE SetMissing(o.args[1][1], o.args[1][2])

\* call_next's normalisation in a DictCouncil.CallState
DictNormalize(o) == IF IsMemberAction(o) THEN o ELSE DictDefaultAction(o)

\* the run state after out(member, self) in a DictCouncil.CallState
DictApplied(o, m, pend, stack, result) ==
    MemberActionCall(DictNormalize(o), m, RunState(pend, stack, result))

\* call_next of a DictCouncil.CallState, first half
DictCallNextMember(outs, maxStack, maxResult) ==
    /\ pc = "next"
    /\ \E sel \in Select(dependency_stack, pending_members) :
       \E o \in outs :
          /\ WithinBounds(DictApplied(o, sel.member, sel.pending, sel.stack,
                                      partial_result), maxStack, maxResult)
          /\ member' = sel.member
          /\ dependency_stack' = sel.stack
          /\ sets' = [sets EXCEPT ![pending_ref] = sel.pending]
          /\ out' = o
    /\ pc' = "apply"
    /\ UNCHANGED <<pending_ref, partial_result, returned, waiting_on,
                   call_args, iters, other>>

\* call_next of a DictCouncil.CallState, second half
DictApplyOutcome ==
    /\ pc = "apply"
    /\ LET st == DictApplied(out, member, pending_members, dependency_stack,
                             partial_result)
       IN  /\ sets' = [sets EXCEPT ![pending_ref] = st.pending]
           /\ dependency_stack' = st.stack
           /\ partial_result' = st.result
           /\ pc' = IF st.err # "none" THEN "raised"
                    ELSE IF st.ret THEN "next" ELSE "returned"
           /\ returned' = IF st.err = "none" /\ ~st.ret
                          THEN Returned(st.result) ELSE returned
    /\ UNCHANGED <<pending_ref, member, out, waiting_on, call_args, iters, other>>

\* the while condition of CouncilCallState.__call__
LoopGoesOn(flag) == flag

\* call_next, second half: out(member, self), and the loop's test of it
ApplyOutcome ==
    /\ pc = "apply"
    /\ LET st == Applied(out, member, pending_members, dependency_stack,
                         partial_result)
       IN  /\ sets' = [sets EXCEPT ![pending_ref] = st.pending]
           /\ dependency_stack' = st.stack
           /\ partial_result' = st.result
           /\ pc' = IF st.err # "none" THEN "raised"
                    ELSE IF LoopGoesOn(st.ret) THEN "next" ELSE "returned"
           /\ returned' = IF st.err = "none" /\ ~LoopGoesOn(st.ret)
                          THEN Returned(st.result) ELSE returned
           /\ waiting_on' = [a \in DOMAIN waiting_on |->
                                IF a # member THEN waiting_on[a]
                                ELSE IF st.err = "none" /\ out.kind = "Postpone"
                                     THEN Range(out.args) ELSE {}]
           /\ iters' = st.iters
    /\ UNCHANGED <<pending_ref, member, out, call_args, other>>

\* call_next with nothing left: it returns False and __call__ returns
CallNextEmpty ==
    /\ pc = "next"
    /\ Select(dependency_stack, pending_members) = {}
    /\ pc' = "returned"
    /\ returned' = Returned(partial_result)
    /\ UNCHANGED <<sets, pending_ref, dependency_stack, partial_result, member,
                   out, waiting_on, call_args, iters, other>>

\* the CouncilCallState the running call works on
ThisCall ==
    [pending_ref |-> pending_ref, dependency_stack |-> dependency_stack,
     partial_result |-> partial_result, pc |-> pc, member |-> member,
     out |-> out, returned |-> returned, call_args |-> call_args]

\* the other call gets to run (a member that re-enters the Council, or its
\* return to the call that was under way): the two call states change places
SwitchCall ==
    /\ other' = ThisCall
    /\ pending_ref' = other.pending_ref
    /\ dependency_stack' = other.dependency_stack
    /\ partial_result' = other.partial_result
    /\ pc' = other.pc
    /\ member' = other.member
    /\ out' = other.out
    /\ returned' = other.returned
    /\ call_args' = other.call_args
    /\ UNCHANGED <<sets, waiting_on, iters>>

\* ------------------------------------------------------------ what members return
Postpones(U) ==
    {Postpone(<<x>>) : x \in U} \cup {Postpone(<<x, y>>) : x \in U, y \in U}

Enqueues(U) == {Enqueue(<<x>>) : x \in U}

\* the outcomes that steer the call
SchedOutcomes(U) ==
    {Continue, Break} \cup {Plain(v) : v \in Value}
        \cup Postpones(U) \cup Enqueues(U)
        \cup {Add(Break, Plain(v)) : v \in Value}
        \cup {Add(Plain(v), Break) : v \in Value}
        \cup {Add(Continue, Plain(v)) : v \in Value}
        \cup {Add(Enqueue(<<x>>), Postpone(<<x>>)) : x \in U}

\* the indices handed to PopResult
PopIndex == (0 - MaxResultDeep)..(MaxResultDeep - 1)

\* the actions a plain value is added to
SumBase(V) ==
    {Continue, Break, ClearResult} \cup {AppendAct(<<w>>) : w \in V}
        \cup {Add(Continue, Plain(w)) : w \in V}

\* the outcomes that work on partial_result
ResultOutcomes(U, V) ==
    {Continue, ClearResult} \cup {Plain(v) : v \in V}
        \cup {AppendAct(<<v, w>>) : v \in V, w \in V}
        \cup {Extend(<<<<v>>, <<v>>>>) : v \in V}
        \cup Enqueues(U)
        \cup {RemoveResult(<<v>>) : v \in V}
        \cup {RemoveResult(<<v, w>>) : v \in V, w \in V}
        \cup {PopResult(<<i>>) : i \in PopIndex}
        \cup {PopResult(<<i, j>>) : i \in PopIndex, j \in PopIndex}
        \cup {Add(a, Plain(v)) : a \in SumBase(V), v \in V}
        \cup {Add(Plain(v), a) : a \in SumBase(V), v \in V}

\* ------------------------------------------------------------ specifications
Init == InitOver({})

\* what the members of a Council over Member may return
MemberOutcomes == SchedOutcomes(Member)

Next ==
    \/ \E m \in Member : AddMember(m)
    \/ \E m \in Member : RemoveMember(m)
    \/ StartCall
    \/ pc = "next" /\ CallNextMember(MemberOutcomes, MaxStack, MaxResult)
    \/ ApplyOutcome
    \/ CallNextEmpty

Spec == Init /\ [][Next]_vars

InitDeep == InitOver(MemberDeep)

\* what the members of a Council over MemberDeep may return
MemberDeepOutcomes == SchedOutcomes(MemberDeep)

NextDeep ==
    \/ \E m \in MemberDeep : AddMember(m)
    \/ \E m \in MemberDeep : RemoveMember(m)
    \/ StartCall
    \/ pc = "next" /\ CallNextMember(MemberDeepOutcomes, MaxStackDeep, MaxResult)
    \/ ApplyOutcome
    \/ CallNextEmpty

SpecDeep == InitDeep /\ [][NextDeep]_vars

\* a Council on which add_member has registered every member
InitResult ==
    /\ sets = [r \in {MembersRef, StateRef, OtherStateRef} |->
                  IF r = MembersRef THEN Member ELSE {}]
    /\ pending_ref = StateRef
    /\ dependency_stack = <<>>
    /\ partial_result = <<>>
    /\ pc = "idle"
    /\ member = NoMember
    /\ out = Continue
    /\ returned = NoReturn
    /\ waiting_on = <<>>
    /\ call_args = NoArgs
    /\ iters = <<>>
    /\ other = IdleCall

\* what members that work on partial_result may return
MemberResultOutcomes == ResultOutcomes(Member, ValueDeep)

NextResult ==
    \/ StartCall
    \/ pc = "next" /\ CallNextMember(MemberResultOutcomes, MaxStack, MaxResultDeep)
    \/ ApplyOutcome
    \/ CallNextEmpty

SpecResult == InitResult /\ [][NextResult]_vars

\* ------------------------------------------------------------ test_simple
MaxArg == 15

\* the members of test_simple, in the order they are added
fizz == 1

buzz == 2

blank == 3

\* the strings of test_simple: 'Fizz', 'Buzz', and str(x), which is the
\* numeral of x and so none of the two words
FizzWord == 0 - 3

BuzzWord == 0 - 5

Str(x) == x

\* the orders in which iterating a set can yield its elements
Orders(S) == {s \in [1..Cardinality(S) -> S] : Range(s) = S}

\* none_continues: a member that returns None continues
NoneContinues(o) == IF o = <<>> THEN {Continue} ELSE {Plain(o[1])}

\* what each member of test_simple returns for the argument x
FizzbuzzReturns(m, pend, stack, result) ==
    LET x == call_args
    IN  CASE m = fizz ->
                 NoneContinues(IF x % 3 = 0 THEN <<FizzWord>> ELSE <<>>)
          [] m = buzz ->
                 \* always_after(fizz)
                 IF fizz \in pend THEN {Postpone(<<fizz>>)}
                 ELSE NoneContinues(IF x % 5 = 0 THEN <<BuzzWord>> ELSE <<>>)
          [] m = blank ->
                 \* always_last
                 IF pend # {} THEN {Postpone(w) : w \in Orders(pend)}
                 ELSE NoneContinues(IF result = <<>> THEN <<Str(x)>> ELSE <<>>)

\* the Council of test_simple after its three add_member, called with x
InitFizzbuzz ==
    /\ sets = [r \in {MembersRef, StateRef, OtherStateRef} |->
                  IF r = MembersRef THEN {fizz, buzz, blank} ELSE {}]
    /\ pending_ref = StateRef
    /\ dependency_stack = <<>>
    /\ partial_result = <<>>
    /\ pc = "idle"
    /\ member = NoMember
    /\ out = Continue
    /\ returned = NoReturn
    /\ waiting_on = <<>>
    /\ call_args \in 0..MaxArg
    /\ iters = <<>>
    /\ other = IdleCall

NextFizzbuzz ==
    \/ StartCall
    \/ CallNextBy([sel \in Choices |->
                      FizzbuzzReturns(sel.member, sel.pending, sel.stack,
                                      partial_result)], MaxStackDeep, MaxResultDeep)
    \/ ApplyOutcome
    \/ CallNextEmpty

SpecFizzbuzz == InitFizzbuzz /\ [][NextFizzbuzz]_vars

\* ------------------------------------------------------------ DictCouncil
DictKey == Value

DictValue == ValueDeep

\* what the members of a DictCouncil return: (key, value) pairs, a tuple
\* that is no pair, and actions
DictOutcomes(U) ==
    {Continue, Break} \cup {Plain(<<k, v>>) : k \in DictKey, v \in DictValue}
        \cup {Plain(<<k>>) : k \in DictKey}
        \cup {Postpone(<<x>>) : x \in U}

\* what the members of the DictCouncil may return
MemberDictOutcomes == DictOutcomes(Member)

NextDict ==
    \/ StartCall
    \/ pc = "next" /\ DictCallNextMember(MemberDictOutcomes, MaxStack, MaxResultDeep)
    \/ DictApplyOutcome
    \/ CallNextEmpty

\* a DictCouncil on which add_member has registered every member
SpecDict == InitResult /\ [][NextDict]_vars

\* ------------------------------------------------------------ two calls
\* what the members return while two calls are followed
TwoOutcomes(U) ==
    {Continue} \cup {Plain(v) : v \in Value}
        \cup {Postpone(<<x>>) : x \in U}

\* what the members may return in either call
MemberTwoOutcomes == TwoOutcomes(Member)

NextTwo ==
    \/ StartCall
    \/ pc = "next" /\ CallNextMember(MemberTwoOutcomes, MaxStack, MaxResult)
    \/ ApplyOutcome
    \/ CallNextEmpty
    \/ SwitchCall

\* two calls of one Council, their steps interleaved
SpecTwo == InitResult /\ [][NextTwo]_vars

\* ------------------------------------------------------------ sums of three
\* the actions that are summed
AssocBase ==
    {Continue, Break, ClearResult} \cup {AppendAct(<<v>>) : v \in Value}
        \cup {RemoveResult(<<NumValues>>), Postpone(<<NumMembers>>),
              Enqueue(<<NumMembers>>), Add(Break, AppendAct(<<NumValues>>))}

\* (a + b) + c
LeftSum(t) == Add(Add(t[1], t[2]), t[3])

\* a + (b + c)
RightSum(t) == Add(t[1], Add(t[2], t[3]))

\* the members are handed a, b, c as the call's arguments and return one
\* of the two sums, or a plain value
SumReturns(m, pend, stack, result) ==
    {LeftSum(call_args), RightSum(call_args), Plain(NumValues)}

InitAssoc ==
    /\ sets = [r \in {MembersRef, StateRef, OtherStateRef} |->
                  IF r = MembersRef THEN Member ELSE {}]
    /\ pending_ref = StateRef
    /\ dependency_stack = <<>>
    /\ partial_result = <<>>
    /\ pc = "idle"
    /\ member = NoMember
    /\ out = Continue
    /\ returned = NoReturn
    /\ waiting_on = <<>>
    /\ call_args \in AssocBase \X AssocBase \X AssocBase
    /\ iters = <<>>
    /\ other = IdleCall

NextAssoc ==
    \/ StartCall
    \/ CallNextBy([sel \in Choices |->
                      SumReturns(sel.member, sel.pending, sel.stack,
                                 partial_result)], MaxStack, MaxResultDeep)
    \/ ApplyOutcome
    \/ CallNextEmpty

SpecAssoc == InitAssoc /\ [][NextAssoc]_vars

\* ------------------------------------------------------------ no Enqueue
\* what members return when none of them returns Enqueue
NoEnqueueOutcomes(U) ==
    {Continue, Break} \cup {Plain(v) : v \in Value} \cup Postpones(U)
        \cup {Add(Break, Plain(v)) : v \in Value}
        \cup {Add(Postpone(<<x>>), Postpone(<<y>>)) : x \in U, y \in U}
        \cup {Add(Postpone(<<x>>), Plain(v)) : x \in U, v \in Value}

\* what members that never return Enqueue may return
MemberNoEnqueueOutcomes == NoEnqueueOutcomes(Member)

NextNoEnqueue ==
    \/ \E m \in Member : AddMember(m)
    \/ \E m \in Member : RemoveMember(m)
    \/ StartCall
    \/ pc = "next" /\ CallNextMember(MemberNoEnqueueOutcomes, MaxStackDeep, MaxResult)
    \/ ApplyOutcome
    \/ CallNextEmpty

SpecNoEnqueue == Init /\ [][NextNoEnqueue]_vars

\* ------------------------------------------------------------ plain members
\* the call's argument names the members that return Continue; every other
\* member returns its own mark, as a plain value or in an Append
OnceReturns(m, pend, stack, result) ==
    IF m \in call_args THEN {Continue} ELSE {Plain(m), AppendAct(<<m>>)}

\* a Council with some members, called with some argument
InitOnce ==
    /\ \E M \in SUBSET Member :
          sets = [r \in {MembersRef, StateRef, OtherStateRef} |->
                     IF r = MembersRef THEN M ELSE {}]
    /\ pending_ref = StateRef
    /\ dependency_stack = <<>>
    /\ partial_result = <<>>
    /\ pc = "idle"
    /\ member = NoMember
    /\ out = Continue
    /\ returned = NoReturn
    /\ waiting_on = <<>>
    /\ call_args \in SUBSET Member
    /\ iters = <<>>
    /\ other = IdleCall

NextOnce ==
    \/ StartCall
    \/ CallNextBy([sel \in Choices |->
                      OnceReturns(sel.member, sel.pending, sel.stack,
                                  partial_result)], MaxStack, NumMembers)
    \/ ApplyOutcome
    \/ CallNextEmpty

SpecOnce == InitOnce /\ [][NextOnce]_vars

\* ------------------------------------------------------------ kept sums
\* the sums of two Joined that are built once, before the calls, and
\* returned by the members again and again
Prebuilt ==
    <<Add(Add(Continue, AppendAct(<<NumValues>>)),
          Add(Continue, AppendAct(<<NumValues>>))),
      Add(Add(Break, AppendAct(<<NumValues>>)),
          Add(Continue, AppendAct(<<NumValues>>)))>>

\* what the members return: one of the kept sums, or an action that has
\* the member invoked again
ChainOutcomes(U) ==
    {ChainJoined(r) : r \in DOMAIN Prebuilt} \cup {Continue}
        \cup {Postpone(<<x>>) : x \in U}

\* a Council with every member, after the sums were built: each chain
\* object has yet to yield all its parts
InitChain ==
    /\ sets = [r \in {MembersRef, StateRef, OtherStateRef} |->
                  IF r = MembersRef THEN Member ELSE {}]
    /\ pending_ref = StateRef
    /\ dependency_stack = <<>>
    /\ partial_result = <<>>
    /\ pc = "idle"
    /\ member = NoMember
    /\ out = Continue
    /\ returned = NoReturn
    /\ waiting_on = <<>>
    /\ call_args = NoArgs
    /\ iters = [r \in DOMAIN Prebuilt |-> Prebuilt[r].parts]
    /\ other = IdleCall

\* what members that return a kept sum may return
MemberChainOutcomes == ChainOutcomes(Member)

NextChain ==
    \/ StartCall
    \/ pc = "next" /\ CallNextMember(MemberChainOutcomes, MaxStack, MaxResultDeep)
    \/ ApplyOutcome
    \/ CallNextEmpty

SpecChain == InitChain /\ [][NextChain]_vars

\* ------------------------------------------------------------ claims
\* the step is out(member, self): the one step that leaves pc = "apply"
ActionExecuted == pc = "apply" /\ pc' # "apply"

CallStartsAfresh ==
    /\ pc' = "next" /\ member' = NoMember
    /\ dependency_stack' = <<>> /\ partial_result' = <<>>

CallStateUnchanged ==
    UNCHANGED <<pending_members, dependency_stack, partial_result, pc, member,
                out, returned>>

\* C1: when a member that returned Postpone(wait_for) is executed again,
\* every member of wait_for has been executed since that Postpone
PostponeOrdering == pc = "apply" => waiting_on[member] = {}

\* the action is Break or a Joined with a Break among its parts
HasBreak(o) ==
    \/ o.kind = "Break"
    \/ o.kind = "Joined" /\ \E i \in 1..Len(o.parts) : o.parts[i].kind = "Break"

\* C2: an action that evaluates to false ends the call at once: the call
\* returns partial_result as the action left it, and no member is invoked
\* after it, whatever pending and dependency_stack still hold
BreakShortCircuit ==
    [][/\ (ActionExecuted /\ HasBreak(out) /\ pc' # "raised")
            => /\ pc' = "returned"
               /\ returned' = Returned(partial_result')
       /\ pc = "returned"
            => \/ CallStateUnchanged
               \/ CallStartsAfresh]_vars

BreakShortCircuitWitness ==
    /\ pc = "returned" /\ HasBreak(out) /\ out.kind = "Joined"
    /\ pending_members # {} /\ dependency_stack # <<>>
    /\ returned = Returned(partial_result) /\ partial_result # <<>>

\* C3: the member invoked next is the most recently pushed element of
\* dependency_stack, which leaves the stack; a member is taken from pending
\* only when the stack is empty; and the call ends for want of a member
\* only when both are empty
SelectionRule ==
    [][/\ (pc = "next" /\ pc' = "apply")
            => IF dependency_stack # <<>>
               THEN /\ member' = Last(dependency_stack)
                    /\ dependency_stack' = Front(dependency_stack)
                    /\ pending_members' = pending_members
               ELSE /\ member' \in pending_members
                    /\ pending_members' = pending_members \ {member'}
                    /\ dependency_stack' = <<>>
       /\ (pc = "next" /\ pc' = "returned")
            => /\ dependency_stack = <<>> /\ pending_members = {}
               /\ returned' = Returned(partial_result)
       /\ (pc = "next" /\ pc' # "next") => pc' \in {"apply", "returned"}]_vars

SelectionRuleWitness ==
    /\ pc = "apply" /\ Len(dependency_stack) >= 1 /\ pending_members # {}
    /\ member # dependency_stack[1]

\* some member of wait_for is not in pending when its turn to be removed comes
Unavailable(wait_for, pend) ==
    \E i \in 1..Len(wait_for) :
        \/ wait_for[i] \notin pend
        \/ \E j \in 1..(i - 1) : wait_for[j] = wait_for[i]

\* C4: a Postpone that names a member not in pending raises; the call is
\* aborted: nothing is returned and no member is invoked after it
PostponeUnavailable ==
    [][/\ (ActionExecuted /\ out.kind = "Postpone"
              /\ Unavailable(out.args, pending_members))
            => pc' = "raised" /\ returned' = NoReturn
       /\ pc = "raised"
            => \/ CallStateUnchanged /\ returned = NoReturn
               \/ CallStartsAfresh]_vars

PostponeUnavailableWitness ==
    /\ pc = "raised" /\ out.kind = "Postpone" /\ returned = NoReturn
    /\ pending_members # {} /\ partial_result # <<>>

\* C5: no member is in pending and on the dependency stack at once
Disjointness == pending_members \cap Range(dependency_stack) = {}

\* C6: no step of a call changes the Council's member set, and a call
\* starts with pending equal to that set, whatever was enqueued before
EnqueueScope ==
    [][pc' # pc
         => /\ members' = members
            /\ (pc \in {"idle", "returned", "raised"})
                   => pending_members' = members]_vars

EnqueueScopeWitness ==
    /\ pc = "next" /\ out.kind = "Enqueue"
    /\ out.args[1] \in pending_members /\ out.args[1] \notin members

\* C7: add_member and remove_member during a call leave the call's pending
\* set, its dependency stack and the rest of its state as they were
SnapshotAtCallStart ==
    [][members' # members => CallStateUnchanged]_vars

\* no member has been taken yet, and the Council's set has already both
\* gained and lost a member since the call began
SnapshotAtCallStartWitness ==
    /\ pc = "next" /\ member = NoMember
    /\ members \ pending_members # {}
    /\ pending_members \ members # {}

\* what a sequence of Continue, Break and Append parts appends, in order
RECURSIVE AppendedBy(_)
AppendedBy(parts) ==
    IF parts = <<>> THEN <<>>
    ELSE (IF Head(parts).kind = "Append" THEN Head(parts).args ELSE <<>>)
             \o AppendedBy(Tail(parts))

PlainParts(o) ==
    \A i \in 1..Len(o.parts) : o.parts[i].kind \in {"Continue", "Break", "Append"}

\* C8: a Joined executes every part, in order, also after a part returned
\* false, and returns the AND of the parts' results: Break joined with
\* Append(v), in either order, appends v and stops the call
JoinedNoShortCircuit ==
    [][(ActionExecuted /\ out.kind = "Joined" /\ PlainParts(out))
         => /\ partial_result' = partial_result \o AppendedBy(out.parts)
            /\ pc' = IF HasBreak(out) THEN "returned" ELSE "next"]_vars

JoinedNoShortCircuitWitness ==
    /\ pc = "returned" /\ out.kind = "Joined"
    /\ out.parts[1].kind = "Break" /\ out.parts[2].kind = "Append"
    /\ partial_result = out.parts[2].args

\* what an action of SumBase does to the result r
ResultAfter(a, r) ==
    CASE a.kind = "ClearResult" -> <<>>
      [] a.kind = "Append" -> r \o a.args
      [] a.kind = "Joined" -> r \o AppendedBy(a.parts)
      [] OTHER -> r

\* C9: a + v and v + a are a Joined in which the plain value v is wrapped
\* as Append(v): executing it does what a does and appends v, in the order
\* written
PlainValueComposition ==
    [][ActionExecuted
         => \A a \in SumBase(ValueDeep), v \in ValueDeep :
               /\ out = Add(a, Plain(v))
                    => /\ \A i \in 1..Len(out.parts) : IsMemberAction(out.parts[i])
                       /\ pc' # "raised"
                       /\ partial_result' = ResultAfter(a, partial_result) \o <<v>>
               /\ out = Add(Plain(v), a)
                    => /\ \A i \in 1..Len(out.parts) : IsMemberAction(out.parts[i])
                       /\ pc' # "raised"
                       /\ partial_result' = ResultAfter(a, partial_result \o <<v>>)]_vars

\* the position (from 0) an index in -n..n-1 denotes in a list of length n
EffectivePosition(i, n) == IF i < 0 THEN i + n ELSE i

RECURSIVE WithoutPositions(_, _, _)
\* r from its k-th element on (from 0), less the elements at the positions P
WithoutPositions(r, P, k) ==
    IF k >= Len(r) THEN <<>>
    ELSE (IF k \in P THEN <<>> ELSE <<r[k + 1]>>) \o WithoutPositions(r, P, k + 1)

\* C10: PopResult with indices of distinct effective positions removes
\* exactly the elements that were at those positions and keeps the others
\* in their order
PopResultRemovesPositions ==
    [][(/\ ActionExecuted /\ out.kind = "PopResult"
        /\ \A i \in 1..Len(out.args) :
              /\ 0 - Len(partial_result) <= out.args[i]
              /\ out.args[i] < Len(partial_result)
        /\ \A i, j \in 1..Len(out.args) :
              i # j => EffectivePosition(out.args[i], Len(partial_result))
                         # EffectivePosition(out.args[j], Len(partial_result)))
         => /\ pc' = "next"
            /\ partial_result' =
                  WithoutPositions(partial_result,
                      {EffectivePosition(out.args[i], Len(partial_result)) :
                           i \in 1..Len(out.args)}, 0)]_vars

\* C11: on a partial_result of length N >= 1, PopResult(-1) and
\* PopResult(N - 1) both return true and leave the same sequence: the
\* result without its last element
PopResultWraparound ==
    [][(/\ ActionExecuted /\ Len(partial_result) >= 1
        /\ \/ out = PopResult(<<0 - 1>>)
           \/ out = PopResult(<<Len(partial_result) - 1>>))
         => /\ pc' = "next"
            /\ partial_result' = Front(partial_result)]_vars

\* PopResult(-1) has taken the last element off a longer result
PopResultWraparoundWitness ==
    /\ pc = "next" /\ out = PopResult(<<0 - 1>>)
    /\ partial_result # <<>> /\ Len(partial_result) < MaxResultDeep

\* how many elements of s equal v
Count(s, v) == Cardinality({i \in 1..Len(s) : s[i] = v})

\* s is r with some elements left out, the others in their order
RECURSIVE IsSubsequence(_, _)
IsSubsequence(s, r) ==
    IF s = <<>> THEN TRUE
    ELSE IF r = <<>> THEN FALSE
    ELSE IF Head(s) = Head(r) THEN IsSubsequence(Tail(s), Tail(r))
    ELSE IsSubsequence(s, Tail(r))

\* some value is given more often than partial_result holds it: it is not
\* there when its turn to be removed comes
RemovalFails(values, r) ==
    \E i \in 1..Len(values) : Count(values, values[i]) > Count(r, values[i])

\* C12: RemoveResult(values) takes one occurrence of each given value out of
\* partial_result, keeps the rest in order and returns true; when a value is
\* not there at its turn, it raises and the call is aborted, nothing returned
RemoveResultRemovesValues ==
    [][(ActionExecuted /\ out.kind = "RemoveResult")
         => IF RemovalFails(out.args, partial_result)
            THEN pc' = "raised" /\ returned' = NoReturn
            ELSE /\ pc' = "next"
                 /\ IsSubsequence(partial_result', partial_result)
                 /\ \A v \in ValueDeep :
                       Count(partial_result', v)
                           = Count(partial_result, v) - Count(out.args, v)]_vars

\* RemoveResult(v) has taken one v out of a result that held it twice
RemoveResultRemovesValuesWitness ==
    /\ pc = "next" /\ out.kind = "RemoveResult" /\ Len(out.args) = 1
    /\ out.args[1] \in Range(partial_result)

\* what test_simple expects of the call with argument x
FizzbuzzExpected(x) ==
    IF x % 3 = 0 /\ x % 5 = 0 THEN <<FizzWord, BuzzWord>>
    ELSE IF x % 3 = 0 THEN <<FizzWord>>
    ELSE IF x % 5 = 0 THEN <<BuzzWord>>
    ELSE <<Str(x)>>

\* C13: whatever the order in which the members are taken from pending, the
\* call of the fizz, buzz, blank Council with x returns ['Fizz'], ['Buzz'],
\* ['Fizz', 'Buzz'] or [str(x)] by the divisors of x, and does not raise
FizzbuzzScenario ==
    /\ pc # "raised"
    /\ pc = "returned" => returned = Returned(FizzbuzzExpected(call_args))

\* the outcome is a plain (key, value) pair
IsPair(o) == o.kind = "Value" /\ Len(o.args[1]) = 2

ContinueIdempotent ==
    [][(ActionExecuted /\ out = Continue)
         => /\ pc' = "next"
            /\ UNCHANGED <<pending_members, dependency_stack, partial_result,
                           returned>>]_vars

\* Continue has been executed in the middle of a call
ContinueIdempotentWitness ==
    /\ pc = "next" /\ out = Continue
    /\ pending_members # {} /\ dependency_stack # <<>> /\ partial_result # <<>>

\* what a call holds: its collections and what it has returned
CallView(c) ==
    [pending |-> sets[c.pending_ref], stack |-> c.dependency_stack,
     result |-> c.partial_result, returned |-> c.returned]

\* C16: every call starts on a state of its own (pending the Council's
\* members, stack and result empty), and no step of a call, its start
\* included, changes the pending set, the stack, the result or the returned
\* result of the other call, be that one under way or over
CallIndependence ==
    [][/\ (pc \in {"idle", "returned", "raised"} /\ pc' = "next"
              /\ other' = other)
            => /\ pending_members' = members
               /\ dependency_stack' = <<>> /\ partial_result' = <<>>
               /\ pending_ref' # other.pending_ref
       /\ \/ CallView(other)' = CallView(other)
          \/ /\ CallView(other)' = CallView(ThisCall)
             /\ CallView(ThisCall)' = CallView(other)]_vars

\* two calls under way at once, each with a pending set and a result of its
\* own
CallIndependenceWitness ==
    /\ pc = "next" /\ member # NoMember /\ other.pc = "apply"
    /\ pending_ref # other.pending_ref
    /\ sets[other.pending_ref] # pending_members
    /\ other.partial_result # partial_result

\* executing the actions of acts one after the other on st, up to the
\* first that raises; flag is the AND of what they returned
RECURSIVE InTurn(_, _, _, _)
InTurn(acts, m, st, flag) ==
    IF acts = <<>> THEN [st EXCEPT !.ret = flag]
    ELSE LET s1 == MemberActionCall(Head(acts), m, st)
         IN  IF s1.err # "none" THEN s1
             ELSE InTurn(Tail(acts), m, s1, flag /\ s1.ret)

CallMeasure ==
    2 * (Len(dependency_stack) + 3 * Cardinality(pending_members))
        + (IF pc = "apply" THEN 1 ELSE 0)

\* C18: when no member returns Enqueue, every step of a call either ends the
\* call (it returns, or a Postpone raises) or leaves it strictly less to do,
\* whatever Postpone the members return: a call of a Council with n members
\* is over after at most 3n invocations, no member is retried forever
TerminationWithoutEnqueue ==
    [][(pc \in {"next", "apply"} /\ ~CallStateUnchanged)
         => /\ pc' \in {"next", "apply", "returned", "raised"}
            /\ pc' \in {"next", "apply"} => CallMeasure' < CallMeasure
            /\ (pc' = "raised") => (out.kind \in {"Postpone", "Joined"})]_vars

\* a Postpone has been executed: the member that returned it waits on the
\* stack for its next invocation, beneath the member it waits for, and the
\* call goes on
TerminationWithoutEnqueueWitness ==
    /\ pc = "next" /\ out.kind = "Postpone"
    /\ Len(dependency_stack) >= 2
    /\ dependency_stack[1] = member
    /\ Last(dependency_stack) = Last(out.args)

\* s holds every element of S once and nothing else
HoldsOnceEach(s, S) == Range(s) = S /\ Len(s) = Cardinality(S)

\* C19: in a call whose members return only Continue or plain values, each
\* member of the Council is taken once (taking it removes it from pending,
\* and nothing puts it back), the stack stays empty, the call returns only
\* with pending empty, and the result holds one element for each member that
\* returned a plain value: one per member when all did
ExactlyOnce ==
    [][/\ (pc = "next" /\ pc' = "apply")
            => /\ member' \in pending_members
               /\ pending_members' = pending_members \ {member'}
               /\ member' \notin Range(partial_result)
       /\ ActionExecuted
            => /\ pc' = "next"
               /\ pending_members' = pending_members
               /\ dependency_stack' = <<>>
               /\ HoldsOnceEach(partial_result',
                      (members \ pending_members) \ call_args)
       /\ (pc = "next" /\ pc' = "returned")
            => /\ pending_members = {} /\ dependency_stack = <<>>
               /\ HoldsOnceEach(returned'.value, members \ call_args)]_vars

\* a call in which every member returned a plain value has returned
ExactlyOnceWitness ==
    /\ pc = "returned" /\ call_args = {} /\ members = Member
    /\ out.kind = "Value" /\ Len(returned.value) = NumMembers
    /\ pending_members = {} /\ dependency_stack = <<>>

\* C20: every execution of a kept Joined object, one built by summing two
\* Joined included, executes all its parts: it does each time what its
\* parts do in turn and returns the AND of their flags
JoinedReexecutable ==
    [][(ActionExecuted /\ out.kind = "Joined" /\ out.args # <<>>)
         => LET st == InTurn(Prebuilt[out.args[1]].parts, member,
                             RunState(pending_members, dependency_stack,
                                      partial_result), TRUE)
            IN  /\ partial_result' = st.result
                /\ pc' = IF st.ret THEN "next" ELSE "returned"]_vars

====
